---- MODULE Spec2Model ----
(***************************************************************************)
(* awslist (main.go): paginated listing of tagged AWS resources and the    *)
(* decomposition of each ARN into a SingleResource row.                    *)
(*                                                                         *)
(* A Go string is modelled as a sequence of atoms.  Every atom stands for  *)
(* a fixed piece of text ("arn", ":", "instance", ...).  The atoms form a   *)
(* prefix code, and the separators ":" and "/" and the letters of the      *)
(* pattern "arn:aws:" occur only in the atoms of that name, so Split, Join  *)
(* and Replace on atom sequences agree with the byte-level functions of    *)
(* package strings.                                                        *)
(***************************************************************************)
EXTENDS Integers, Sequences, FiniteSets, TLC

\* ------------------------------------------------------------------------
\* Bounds of the model
\* ------------------------------------------------------------------------
MaxPages   == 3   \* pages the provider's listing is cut into
MaxPerPage == 2   \* ResourceTagMappingList entries per page
MaxArns    == 3   \* entries of all pages of a listing together
MaxRest    == 3   \* atoms in the resource part of a generated ARN
MaxSegs    == 5   \* segments of a generated ARN that is too short

\* ------------------------------------------------------------------------
\* Values
\* ------------------------------------------------------------------------
Colon  == <<":">>
Slash  == <<"/">>
ArnAws == <<"arn", ":", "aws", ":">>          \* the literal "arn:aws:"
EmptyString == <<>>

\* a nil *string; no Go string is equal to it
Nil == <<"<nil>">>
\* result of a function whose evaluation ends in a run-time panic
PanicStr == <<"<panic>">>
PanicRes == [panic |-> "index out of range"]

\* error values the specification names; main.go defines none of them
InvalidArnFormat      == [error |-> "InvalidArnFormat"]
MalformedResourcePath == [error |-> "MalformedResourcePath"]

\* ------------------------------------------------------------------------
\* package strings
\* ------------------------------------------------------------------------
HasPrefixAt(s, old, i) ==
    /\ i + Len(old) - 1 <= Len(s)
    /\ SubSeq(s, i, i + Len(old) - 1) = old

RECURSIVE ReplaceFrom(_, _, _, _)
ReplaceFrom(s, old, new, i) ==
    IF i > Len(s) THEN <<>>
    ELSE IF HasPrefixAt(s, old, i)
         THEN new \o ReplaceFrom(s, old, new, i + Len(old))
         ELSE <<s[i]>> \o ReplaceFrom(s, old, new, i + 1)

\* strings.Replace(s, old, new, -1), old non-empty: every non-overlapping
\* occurrence of old, leftmost first, is replaced
Replace(s, old, new) == ReplaceFrom(s, old, new, 1)

RECURSIVE SplitFrom(_, _, _, _)
SplitFrom(s, sep, i, cur) ==
    IF i > Len(s) THEN <<cur>>
    ELSE IF HasPrefixAt(s, sep, i)
         THEN <<cur>> \o SplitFrom(s, sep, i + Len(sep), <<>>)
         ELSE SplitFrom(s, sep, i + 1, Append(cur, s[i]))

\* strings.Split(s, sep), sep non-empty: Split("", sep) is [""]
Split(s, sep) == SplitFrom(s, sep, 1, <<>>)

RECURSIVE Join(_, _)
\* strings.Join(elems, sep)
Join(elems, sep) ==
    IF Len(elems) = 0 THEN <<>>
    ELSE IF Len(elems) = 1 THEN elems[1]
    ELSE elems[1] \o sep \o Join(Tail(elems), sep)

\* ------------------------------------------------------------------------
\* ARN decomposition and classification
\* ------------------------------------------------------------------------
ServiceNameFromARN(arn) ==
    LET shortArn == Replace(arn, ArnAws, <<>>)
        sliced   == Split(shortArn, Colon)
    IN  sliced[1]

\* ShortArn mutated: slicedArn[6:] instead of slicedArn[5:]
ShortArn_six(arn) ==
    LET slicedArn == Split(arn, Colon)
    IN  IF Len(slicedArn) < 6 THEN PanicStr
        ELSE Join(SubSeq(slicedArn, 7, Len(slicedArn)), Slash)

\* slicedArn[5:] panics when the slice has fewer than 5 elements and is the
\* empty slice when it has exactly 5
ShortArn(arn) ==
    LET slicedArn == Split(arn, Colon)
    IN  IF Len(slicedArn) < 5 THEN PanicStr
        ELSE Join(SubSeq(slicedArn, 6, Len(slicedArn)), Slash)

\* awsGeneric.ConverToResource mutated: the short ARN lands in Product
awsGeneric_ConverToResource_product(shortArn, svc, rgn) ==
    [Region |-> rgn, Service |-> svc, Product |-> shortArn, Details |-> Nil,
     ID |-> Nil, ARN |-> shortArn]

awsGeneric_ConverToResource(shortArn, svc, rgn) ==
    [Region |-> rgn, Service |-> svc, Product |-> Nil, Details |-> Nil,
     ID |-> shortArn, ARN |-> shortArn]

\* awsEC2.ConvertToResource mutated: s[0] and s[1] exchanged
awsEC2_ConvertToResource_swapped(shortArn, svc, rgn) ==
    LET s == Split(shortArn, Slash)
    IN  IF Len(s) < 2 THEN PanicRes
        ELSE [Region |-> rgn, Service |-> svc, Product |-> s[2],
              Details |-> Nil, ID |-> s[1], ARN |-> shortArn]

\* &s[1] panics when Split returned a single element
awsEC2_ConvertToResource(shortArn, svc, rgn) ==
    LET s == Split(shortArn, Slash)
    IN  IF Len(s) < 2 THEN PanicRes
        ELSE [Region |-> rgn, Service |-> svc, Product |-> s[1],
              Details |-> Nil, ID |-> s[2], ARN |-> shortArn]

awsECS_ConvertToResource(shortArn, svc, rgn) ==
    LET s == Split(shortArn, Slash)
    IN  IF Len(s) < 2 THEN PanicRes
        ELSE [Region |-> rgn, Service |-> svc, Product |-> s[1],
              Details |-> Nil, ID |-> s[2], ARN |-> shortArn]

ConvertArnToSingleResource(arn, svc, rgn) ==
    LET shortArn == ShortArn(arn)
    IN  IF shortArn = PanicStr THEN PanicRes
        ELSE IF svc = <<"ec2">> THEN awsEC2_ConvertToResource(shortArn, svc, rgn)
        ELSE IF svc = <<"ecs">> THEN awsECS_ConvertToResource(shortArn, svc, rgn)
        ELSE awsGeneric_ConverToResource(shortArn, svc, rgn)

DerefNilPointerStrings(s) == IF s = Nil THEN EmptyString ELSE s

\* ------------------------------------------------------------------------
\* Inputs
\* ------------------------------------------------------------------------
Regions  == {<<"us-east-1">>, <<"eu-west-1">>}      \* os.Args[1]
Services == {<<"ec2">>, <<"ecs">>, <<"s3">>}

SeqsUpTo(S, n) == UNION {[1..k -> S] : k \in 0..n}

RECURSIVE Flatten(_)
Flatten(lists) == IF lists = <<>> THEN <<>> ELSE Head(lists) \o Flatten(Tail(lists))

SvcPool   == {<<"ec2">>, <<"ecs">>, <<"s3">>, <<"arn">>, <<"s3", "arn">>, <<>>}
RgnPool   == {<<"us-east-1">>, <<"aws">>}
AcctPool  == {<<"123456789012">>, <<>>}
RestAtoms == {":", "/", "instance", "i-0123abcd", "my-bucket"}
SegPool   == {<<>>, <<"arn">>, <<"aws">>, <<"ec2">>}

\* arn:aws:<svc>:<region>:<acct>:<rest...>
FormArns ==
    {ArnAws \o svc \o Colon \o rg \o Colon \o acct \o Colon \o rest :
        svc \in SvcPool, rg \in RgnPool, acct \in AcctPool,
        rest \in SeqsUpTo(RestAtoms, MaxRest)}

\* strings of 1..MaxSegs colon-delimited segments
ShortArns ==
    {Join(segs, Colon) : segs \in (SeqsUpTo(SegPool, MaxSegs) \ {<<>>})}

ArnInputs == FormArns \cup ShortArns

\* the three ARNs the provider's pages are filled with: an EC2 instance,
\* an S3 bucket, and an EC2 ARN whose resource part has no "/"
ArnEC2 == ArnAws \o <<"ec2", ":", "us-east-1", ":", "123456789012", ":",
                      "instance", "/", "i-0123abcd">>
ArnS3  == ArnAws \o <<"s3", ":", ":", ":", "my-bucket">>
ArnBad == ArnAws \o <<"ec2", ":", "us-east-1", ":", "123456789012", ":",
                      "my-bucket">>
PageArns == {ArnEC2, ArnS3, ArnBad}

\* continuation tokens are opaque non-empty strings
TokenNames == <<"t1", "t2", "t3", "t4", "t5">>
Token(i) == <<TokenNames[i]>>

\* a listing of n pages: page i < n carries the token that leads to page
\* i + 1, the last page carries the empty token or none at all
Listings(n) ==
    {[i \in 1..n |->
        [ResourceTagMappingList |-> lists[i],
         PaginationToken |-> IF i < n THEN Token(i) ELSE last]] :
        lists \in {l \in [1..n -> SeqsUpTo(PageArns, MaxPerPage)] :
                      Len(Flatten(l)) <= MaxArns},
        last \in {EmptyString, Nil}}

\* GetResourcesInput.ResourcesPerPage
ResourcesPerPage == 50

NoInput  == [nil |-> "GetResourcesInput"]
NoOutput == [nil |-> "GetResourcesOutput"]

\* ------------------------------------------------------------------------
\* State
\* ------------------------------------------------------------------------
VARIABLES
    \* the decomposition of one ARN
    arnIn,      \* resource.ResourceARN handed to the decomposition
    rgnIn,      \* the region handed to the decomposition
    fpc,        \* "input", "decomposed", "converted"
    svcName,    \* ServiceNameFromARN(arnIn)
    shortOut,   \* ShortArn(arnIn), or PanicStr
    svcArg,     \* the svc argument of ConvertArnToSingleResource
    resOut,     \* its result, or PanicRes
    \* main
    region,           \* os.Args[1]
    pages,            \* the provider's listing
    pc,               \* "top", "call", "render", "done", "panic"
    paginationToken,
    in,
    out,
    err,              \* TRUE for a non-nil error
    resources,
    printed,          \* number of errors written by fmt.Println
    table,            \* rows handed to the table writer, Nil before that
    calls             \* history: every GetResources call with its outcome

fnVars   == <<arnIn, rgnIn, fpc, svcName, shortOut, svcArg, resOut>>
mainVars == <<region, pages, pc, paginationToken, in, out, err, resources,
              printed, table, calls>>

vars == <<arnIn, rgnIn, fpc, svcName, shortOut, svcArg, resOut,
          region, pages, pc, paginationToken, in, out, err, resources,
          printed, table, calls>>

FnIdle ==
    /\ arnIn = EmptyString
    /\ rgnIn = EmptyString
    /\ fpc = "idle"
    /\ svcName = Nil
    /\ shortOut = Nil
    /\ svcArg = Nil
    /\ resOut = PanicRes

MainIdle ==
    /\ region = EmptyString
    /\ pages = <<>>
    /\ pc = "idle"
    /\ paginationToken = EmptyString
    /\ in = NoInput
    /\ out = NoOutput
    /\ err = FALSE
    /\ resources = <<>>
    /\ printed = 0
    /\ table = Nil
    /\ calls = <<>>

\* ------------------------------------------------------------------------
\* The decomposition of one ARN (SpecArn)
\* ------------------------------------------------------------------------
InitArn ==
    /\ arnIn \in ArnInputs
    /\ rgnIn \in Regions
    /\ fpc = "input"
    /\ svcName = Nil
    /\ shortOut = Nil
    /\ svcArg = Nil
    /\ resOut = PanicRes
    /\ MainIdle

\* main, line 159, and the first statement of ConvertArnToSingleResource
Decompose ==
    /\ fpc = "input"
    /\ svcName' = ServiceNameFromARN(arnIn)
    /\ shortOut' = ShortArn(arnIn)
    /\ fpc' = "decomposed"
    /\ UNCHANGED <<arnIn, rgnIn, svcArg, resOut>>
    /\ UNCHANGED mainVars

\* a call of ConvertArnToSingleResource: with the service main derives
\* from the ARN (line 162), or with another service identifier
Convert ==
    /\ fpc = "decomposed"
    /\ \E svc \in Services \cup {svcName} :
          /\ svcArg' = svc
          /\ resOut' = ConvertArnToSingleResource(arnIn, svc, rgnIn)
    /\ fpc' = "converted"
    /\ UNCHANGED <<arnIn, rgnIn, svcName, shortOut>>
    /\ UNCHANGED mainVars

NextArn == Decompose \/ Convert

SpecArn == InitArn /\ [][NextArn]_vars

\* ------------------------------------------------------------------------
\* main: the pagination loop (Spec)
\* ------------------------------------------------------------------------
\* the provider: a request without token is answered with page 1, a request
\* with the token of page i with page i + 1
PageFor(input) ==
    IF input.PaginationToken = Nil THEN 1
    ELSE 1 + CHOOSE i \in 1..Len(pages) : Token(i) = input.PaginationToken

\* r.GetResources(ctx, in): the page asked for, or a nil output and an error
GetResources(input, fail) ==
    IF fail THEN [out |-> NoOutput, err |-> TRUE]
    ELSE [out |-> pages[PageFor(input)], err |-> FALSE]

RECURSIVE RangeResources_prepend(_, _, _)
\* the loop of lines 158..163 mutated: the new record is put in front
RangeResources_prepend(res, list, rgn) ==
    IF list = <<>> THEN [resources |-> res, panic |-> FALSE]
    ELSE LET svc == ServiceNameFromARN(Head(list))
             r   == ConvertArnToSingleResource(Head(list), svc, rgn)
         IN  IF r = PanicRes THEN [resources |-> res, panic |-> TRUE]
             ELSE RangeResources_prepend(<<r>> \o res, Tail(list), rgn)

RECURSIVE RangeResources(_, _, _)
\* lines 158..163: one record per entry, appended in the order received;
\* a panic in ConvertArnToSingleResource ends the loop and the process
RangeResources(res, list, rgn) ==
    IF list = <<>> THEN [resources |-> res, panic |-> FALSE]
    ELSE LET svc == ServiceNameFromARN(Head(list))
             r   == ConvertArnToSingleResource(Head(list), svc, rgn)
         IN  IF r = PanicRes THEN [resources |-> res, panic |-> TRUE]
             ELSE RangeResources(Append(res, r), Tail(list), rgn)

\* PrettyPrintResources: one row per resource, in collection order
Rows(res) ==
    [i \in 1..Len(res) |->
        <<DerefNilPointerStrings(res[i].Region),
          DerefNilPointerStrings(res[i].Service),
          DerefNilPointerStrings(res[i].Product),
          DerefNilPointerStrings(res[i].ID)>>]

Init ==
    /\ FnIdle
    /\ region \in Regions
    /\ pages \in UNION {Listings(n) : n \in 1..MaxPages}
    /\ pc = "top"
    /\ paginationToken = EmptyString
    /\ in = NoInput
    /\ out = NoOutput
    /\ err = FALSE
    /\ resources = <<>>
    /\ printed = 0
    /\ table = Nil
    /\ calls = <<>>

\* lines 138..151: without a token the input is built and GetResources is
\* called (an error is printed, nothing else); with a token only the input
\* is built
LoopTop ==
    /\ pc = "top"
    /\ \/ /\ Len(paginationToken) = 0
          /\ \E fail \in BOOLEAN :
               LET input == [ResourcesPerPage |-> ResourcesPerPage,
                             PaginationToken |-> Nil]
                   resp  == GetResources(input, fail)
               IN  /\ in' = input
                   /\ out' = resp.out
                   /\ err' = resp.err
                   /\ printed' = IF resp.err THEN printed + 1 ELSE printed
                   /\ calls' = Append(calls, [line |-> 142, in |-> input,
                                              out |-> resp.out, err |-> resp.err])
       \/ /\ Len(paginationToken) # 0
          /\ in' = [ResourcesPerPage |-> ResourcesPerPage,
                    PaginationToken |-> paginationToken]
          /\ UNCHANGED <<out, err, printed, calls>>
    /\ pc' = "call"
    /\ UNCHANGED <<region, pages, paginationToken, resources, table>>
    /\ UNCHANGED fnVars

\* lines 153..168: GetResources with the input built before; an error is
\* printed and the nil output is dereferenced (panic); otherwise the
\* entries are converted, the token is taken over and the loop is left when
\* it is empty
Call ==
    /\ pc = "call"
    /\ \E fail \in BOOLEAN :
         LET resp   == GetResources(in, fail)
             ranged == RangeResources(resources, resp.out.ResourceTagMappingList,
                                      region)
         IN  /\ out' = resp.out
             /\ err' = resp.err
             /\ printed' = IF resp.err THEN printed + 1 ELSE printed
             /\ calls' = Append(calls, [line |-> 153, in |-> in,
                                        out |-> resp.out, err |-> resp.err])
             /\ IF resp.err
                THEN /\ pc' = "panic"
                     /\ UNCHANGED <<resources, paginationToken>>
                ELSE /\ resources' = ranged.resources
                     /\ IF ranged.panic \/ resp.out.PaginationToken = Nil
                        THEN /\ pc' = "panic"
                             /\ UNCHANGED paginationToken
                        ELSE /\ paginationToken' = resp.out.PaginationToken
                             /\ pc' = IF resp.out.PaginationToken = EmptyString
                                      THEN "render" ELSE "top"
    /\ UNCHANGED <<region, pages, in, table>>
    /\ UNCHANGED fnVars

\* line 172
Render ==
    /\ pc = "render"
    /\ table' = Rows(resources)
    /\ pc' = "done"
    /\ UNCHANGED <<region, pages, paginationToken, in, out, err, resources,
                   printed, calls>>
    /\ UNCHANGED fnVars

Next == LoopTop \/ Call \/ Render

Spec == Init /\ [][Next]_vars

\* ------------------------------------------------------------------------
\* Segments of a string, by counting separators (used by the properties)
\* ------------------------------------------------------------------------
SepsBefore(s, sep, i) == Cardinality({j \in 1..i : s[j] = sep})

NumSegments(s, sep) == SepsBefore(s, sep, Len(s)) + 1

\* the k-th sep-delimited segment of s, k in 1..NumSegments(s, sep)
Segment(s, sep, k) ==
    LET idx == {i \in 1..Len(s) : s[i] # sep /\ SepsBefore(s, sep, i) = k - 1}
        lo  == CHOOSE i \in idx : \A j \in idx : i <= j
    IN  [j \in 1..Cardinality(idx) |-> s[lo + j - 1]]

\* s with its first k colon-delimited segments removed
WithoutSegments(s, k) ==
    LET after == {i \in 1..Len(s) : SepsBefore(s, ":", i - 1) >= k}
    IN  [j \in 1..Cardinality(after) |-> s[Len(s) - Cardinality(after) + j]]

\* s with every ":" turned into "/"
Slashed(s) == [j \in 1..Len(s) |-> IF s[j] = ":" THEN "/" ELSE s[j]]

EndsWith(s, t) == Len(s) >= Len(t) /\ SubSeq(s, Len(s) - Len(t) + 1, Len(s)) = t

\* arn:aws:<svc>:<region>:<acct>:<rest...> with at least 6 segments
IsFormArn(arn) == HasPrefixAt(arn, ArnAws, 1) /\ NumSegments(arn, ":") >= 6

IsResource(r) == r # PanicRes

\* ------------------------------------------------------------------------
\* Properties of the decomposition (SpecArn)
\* ------------------------------------------------------------------------
\* C3, as stated: for every ARN arn:aws:<svc>:<region>:<acct>:<rest...> with
\* at least 6 segments the service is <svc> and the short ARN is the ARN
\* with its first six colon-delimited segments removed, joined by "/".
C3_AsStated ==
    (fpc # "input" /\ IsFormArn(arnIn)) =>
        /\ svcName = Segment(arnIn, ":", 3)
        /\ shortOut = Slashed(WithoutSegments(arnIn, 6))

\* C3, amended: the short ARN is the ARN with its first five
\* colon-delimited segments removed, the remaining ones joined by "/"; the
\* service is <svc> unless <svc> ends in "arn" and <region> is "aws".
C3_ShortArnDropsFive ==
    (fpc # "input" /\ IsFormArn(arnIn)) =>
        /\ shortOut = Slashed(WithoutSegments(arnIn, 5))
        /\ ~(EndsWith(Segment(arnIn, ":", 3), <<"arn">>)
               /\ Segment(arnIn, ":", 4) = <<"aws">>)
             => svcName = Segment(arnIn, ":", 3)

C3_Witness ==
    /\ fpc = "decomposed"
    /\ IsFormArn(arnIn)
    /\ NumSegments(arnIn, ":") >= 7
    /\ svcName = <<"ec2">>
    /\ Len(shortOut) = 3

\* C4: for service ec2 or ecs and a short ARN with at least 2
\* "/"-delimited segments the record's product is the first segment and its
\* identifier the second; the ecs strategy agrees with the ec2 strategy.
C4_ProductAndIdentifier ==
    (/\ fpc = "converted"
     /\ svcArg \in {<<"ec2">>, <<"ecs">>}
     /\ shortOut # PanicStr
     /\ NumSegments(shortOut, "/") >= 2) =>
        /\ IsResource(resOut)
        /\ resOut.Product = Segment(shortOut, "/", 1)
        /\ resOut.ID = Segment(shortOut, "/", 2)
        /\ LET e == awsEC2_ConvertToResource(shortOut, <<"ec2">>, rgnIn)
               c == awsECS_ConvertToResource(shortOut, <<"ecs">>, rgnIn)
           IN  /\ IsResource(e) /\ IsResource(c)
               /\ e.Product = c.Product /\ e.ID = c.ID

C4_Witness ==
    /\ fpc = "converted"
    /\ svcArg = <<"ec2">>
    /\ shortOut = <<"instance", "/", "i-0123abcd">>
    /\ IsResource(resOut)
    /\ resOut.Product = <<"instance">>
    /\ resOut.ID = <<"i-0123abcd">>

C6_MalformedResourcePath ==
    (/\ fpc = "converted"
     /\ svcArg \in {<<"ec2">>, <<"ecs">>}
     /\ shortOut # PanicStr
     /\ NumSegments(shortOut, "/") = 1) =>
        resOut = MalformedResourcePath

\* C7: for an ARN with fewer than 6 colon-delimited segments the
\* decomposition fails with InvalidArnFormat.
C7_InvalidArnFormat ==
    (fpc = "converted" /\ NumSegments(arnIn, ":") < 6) =>
        resOut = InvalidArnFormat

\* ------------------------------------------------------------------------
\* Properties of the pagination loop (Spec)
\* ------------------------------------------------------------------------
NoErrors == \A i \in 1..Len(calls) : ~calls[i].err

ErrorSeen == \E i \in 1..Len(calls) : calls[i].err

\* the ARNs of the listing's pages 1..n, in page order
ArnsOfPages(n) == Flatten([i \in 1..n |-> pages[i].ResourceTagMappingList])

\* the ARNs of the responses the loop of line 158 has ranged over
ArnsRanged ==
    Flatten([i \in 1..Len(calls) |->
               IF calls[i].line = 153 /\ ~calls[i].err
               THEN calls[i].out.ResourceTagMappingList ELSE <<>>])

\* the record the specification describes for one ARN of a page
RecordOf(arn) ==
    [Region |-> region,
     Service |-> Segment(arn, ":", 3),
     Product |-> IF Segment(arn, ":", 3) \in {<<"ec2">>, <<"ecs">>}
                 THEN Segment(Slashed(WithoutSegments(arn, 5)), "/", 1)
                 ELSE Nil,
     Details |-> Nil,
     ID |-> IF Segment(arn, ":", 3) \in {<<"ec2">>, <<"ecs">>}
            THEN Segment(Slashed(WithoutSegments(arn, 5)), "/", 2)
            ELSE Slashed(WithoutSegments(arn, 5)),
     ARN |-> Slashed(WithoutSegments(arn, 5))]

\* C1: a provider that returns N pages without error is sent exactly N
\* requests, and the collection is the records of pages 1..N in order.
C1_ExactlyNRequests ==
    (pc \in {"render", "done"} /\ NoErrors) =>
        /\ Len(calls) = Len(pages)
        /\ Len(resources) = Len(ArnsOfPages(Len(pages)))
        /\ \A i \in 1..Len(resources) :
              resources[i] = RecordOf(ArnsOfPages(Len(pages))[i])

\* C2: once a list operation has returned an error the run is aborted: the
\* failed call is the last one, nothing was added to the collection by it,
\* and the table is not rendered.
C2_ErrorAborts ==
    ErrorSeen =>
        /\ pc = "panic"
        /\ calls[Len(calls)].err
        /\ \A i \in 1..(Len(calls) - 1) : ~calls[i].err
        /\ table = Nil
        /\ Len(resources) = Len(ArnsRanged)
        /\ printed >= 1

\* C8: every record of the collection has the query region and a populated
\* service, the i-th record is the record of the i-th ARN ranged over so
\* far (all of them unless the process has panicked), and a step never
\* changes or removes a record that is in the collection.
C8_Inv ==
    /\ Len(resources) <= Len(ArnsRanged)
    /\ pc # "panic" => Len(resources) = Len(ArnsRanged)
    /\ \A i \in 1..Len(resources) :
          /\ resources[i].Region = region
          /\ resources[i].Service # Nil
          /\ resources[i] = RecordOf(ArnsRanged[i])

C8_Step ==
    /\ Len(resources') >= Len(resources)
    /\ SubSeq(resources', 1, Len(resources)) = resources

C8_RecordsStable == []C8_Inv /\ [][C8_Step]_vars

C8_Witness ==
    /\ pc = "done"
    /\ Len(pages) = 3
    /\ Len(resources) = 3
    /\ resources[1].Service = <<"s3">>
    /\ resources[3].Service = <<"ec2">>
    /\ region = <<"eu-west-1">>

\* C9: no request is issued after a response with an empty continuation
\* token, and the table is rendered only after that response, once.
C9_StopsAtEmptyToken ==
    /\ \A i \in 1..Len(calls) :
          (~calls[i].err /\ calls[i].out.PaginationToken = EmptyString)
              => i = Len(calls)
    /\ table # Nil =>
          /\ pc = "done"
          /\ ~calls[Len(calls)].err
          /\ calls[Len(calls)].out.PaginationToken = EmptyString
          /\ table = Rows(resources)

\* C10: every request asks for 50 entries, the first carries no token and
\* every later one the non-empty token of the response just before it.
C10_TokenOfPreviousResponse ==
    \A i \in 1..Len(calls) :
        /\ calls[i].in.ResourcesPerPage = 50
        /\ i = 1 => calls[i].in.PaginationToken = Nil
        /\ (i > 1 /\ ~calls[i - 1].err) =>
              /\ calls[i].in.PaginationToken = calls[i - 1].out.PaginationToken
              /\ calls[i].in.PaginationToken # EmptyString
              /\ calls[i].in.PaginationToken # Nil

====
